---- MODULE Spec2Model ----
(***************************************************************************)
(* A model of the aqi crate (src/src/lib.rs): the integer categorisation   *)
(* AirQualityLevel::try_from, the breakpoint tables, find_breakpoint,      *)
(* calc_aqi, trunc, round (both build modes) and the formula functions.    *)
(*                                                                         *)
(* The crate computes in IEEE-754 binary64 (f64).  An f64 is modelled      *)
(* exactly, as sign * man * 2^exp with an odd mantissa of at most 53 bits, *)
(* and every arithmetic operation of the source rounds its exact result    *)
(* to the nearest such number, ties to even, as the hardware does.  The    *)
(* mantissa and the wide integers (u32, u64, i64) do not fit TLC's 32-bit  *)
(* integers, so they are naturals in base 2^15, least significant limb     *)
(* first, without leading zero limbs (the empty sequence is 0).            *)
(***************************************************************************)
EXTENDS Integers, Sequences, FiniteSets, TLC

(***************************************************************************)
(* Naturals of arbitrary size.                                             *)
(***************************************************************************)
Base == 2^15

Max(S) == CHOOSE x \in S : \A y \in S : y <= x

Min(S) == CHOOSE x \in S : \A y \in S : x <= y

\* a without its leading zero limbs
BNorm(a) == SubSeq(a, 1, Max({0} \cup {i \in 1..Len(a) : a[i] # 0}))

BLimb(a, i) == IF 1 <= i /\ i <= Len(a) THEN a[i] ELSE 0

\* n < 2^31
BFromNat(n) == BNorm(<<n % Base, (n \div Base) % Base, n \div (Base * Base)>>)

\* a < 2^31
BToNat(a) == BLimb(a, 1) + Base * BLimb(a, 2) + Base * Base * BLimb(a, 3)

\* the carry into limb i of the sums s, each below 2 * Base - 1: a limb below
\* overflows and those between are full
Carry(s, i) ==
    IF \E j \in 1..(i - 1) : s[j] >= Base /\ \A k \in (j + 1)..(i - 1) : s[k] = Base - 1
    THEN 1 ELSE 0

BCarry(s) == BNorm([i \in 1..Len(s) |-> (s[i] + Carry(s, i)) % Base])

BAdd(a, b) ==
    IF a = <<>> THEN b
    ELSE IF b = <<>> THEN a
    ELSE BCarry([i \in 1..(Max({Len(a), Len(b)}) + 1) |-> BLimb(a, i) + BLimb(b, i)])

\* what limb i lends of the differences d: a limb below is short and those
\* between are 0
Borrow(d, i) ==
    IF \E j \in 1..(i - 1) : d[j] < 0 /\ \A k \in (j + 1)..(i - 1) : d[k] = 0
    THEN 1 ELSE 0

BBorrow(d) == BNorm([i \in 1..Len(d) |-> (d[i] - Borrow(d, i) + Base) % Base])

\* a - b for a >= b
BSub(a, b) ==
    IF b = <<>> \/ a = <<>> THEN a
    ELSE BBorrow([i \in 1..Len(a) |-> a[i] - BLimb(b, i)])

\* -1, 0, 1 as a < b, a = b, a > b, which differ first at limb i (0: nowhere)
BCmpAt(a, b, i) == IF i = 0 THEN 0 ELSE IF a[i] < b[i] THEN -1 ELSE 1

BCmp(a, b) ==
    IF Len(a) < Len(b) THEN -1
    ELSE IF Len(a) > Len(b) THEN 1
    ELSE BCmpAt(a, b, Max({0} \cup {i \in 1..Len(a) : a[i] # b[i]}))

\* |a - b|
BDiff(a, b) == IF BCmp(a, b) >= 0 THEN BSub(a, b) ELSE BSub(b, a)

\* a * d + c for d, c < Base
BMulSmall(a, d, c) ==
    IF a = <<>> THEN (IF c = 0 THEN <<>> ELSE <<c>>)
    ELSE BCarry([i \in 1..(Len(a) + 1) |->
                    ((BLimb(a, i) * d) % Base)
                    + (IF i = 1 THEN c ELSE (a[i - 1] * d) \div Base)])

BShlLimbs(a, n) == IF a = <<>> THEN a ELSE [i \in 1..n |-> 0] \o a

\* 2^k
BPow2(k) == BShlLimbs(<<2^(k % 15)>>, k \div 15)

\* a * p for p a power of 2 below Base
BShlBits(a, p) ==
    BNorm([i \in 1..(Len(a) + 1) |->
              ((BLimb(a, i) * p) % Base) + ((BLimb(a, i - 1) * p) \div Base)])

\* a * 2^k
BShl(a, k) == IF a = <<>> THEN a ELSE BShlLimbs(BShlBits(a, 2^(k % 15)), k \div 15)

\* floor(a / 2^k)
BShr(a, k) ==
    IF k \div 15 >= Len(a) THEN <<>>
    ELSE BNorm([i \in 1..(Len(a) - k \div 15) |->
                  (a[i + k \div 15] \div 2^(k % 15))
                  + (BLimb(a, i + k \div 15 + 1) % 2^(k % 15)) * (Base \div 2^(k % 15))])

\* a % 2^k
BLowBits(a, k) ==
    BNorm([i \in 1..Min({Len(a), k \div 15 + 1}) |->
              IF i <= k \div 15 THEN a[i] ELSE a[i] % 2^(k % 15)])

RECURSIVE BMul(_, _)
BMul(a, b) ==
    IF a = <<>> \/ b = <<>> THEN <<>>
    ELSE BAdd(BMulSmall(a, b[1], 0), BShlLimbs(BMul(a, Tail(b)), 1))

\* n < 2^31
NatBitLen(n) == Cardinality({k \in 0..30 : 2^k <= n})

BBitLen(a) == IF a = <<>> THEN 0 ELSE 15 * (Len(a) - 1) + NatBitLen(a[Len(a)])

BTrailingZerosAt(a, i) == 15 * (i - 1) + Cardinality({k \in 1..14 : a[i] % 2^k = 0})

\* for a # 0
BTrailingZeros(a) == BTrailingZerosAt(a, Min({j \in 1..Len(a) : a[j] # 0}))

RECURSIVE BDivSmall(_, _)
\* quotient (not normalised) and remainder of a by d, 0 < d < Base
BDivSmall(a, d) ==
    IF a = <<>> THEN [q |-> <<>>, r |-> 0]
    ELSE LET hi  == BDivSmall(Tail(a), d)
             cur == hi.r * Base + a[1]
         IN  [q |-> <<cur \div d>> \o hi.q, r |-> cur % d]

RECURSIVE BFix(_, _, _, _)
\* the quotient digit of r by b from an estimate q >= it, p = q * b
BFix(r, b, q, p) ==
    IF BCmp(p, r) > 0 THEN BFix(r, b, q - 1, BSub(p, b))
    ELSE [q |-> q, r |-> BSub(r, p)]

\* the quotient digit and remainder of r < b * Base by b, whose top limb is
\* 2^14 or more: the estimate from the top limbs is at most 2 too large
BDigit(r, b) ==
    LET q == Min({Base - 1,
                  (BLimb(r, Len(b) + 1) * Base + BLimb(r, Len(b))) \div b[Len(b)]})
    IN  BFix(r, b, q, BMulSmall(b, q, 0))

BDivPut(q, dg) == [q |-> <<dg.q>> \o q, r |-> dg.r]

RECURSIVE BDivLimbs(_, _)
\* hi: the quotient and remainder of the limbs above the limb x
BDivStep(x, b, hi) ==
    IF hi.r = <<>> THEN BDivPut(hi.q, BDigit(BNorm(<<x>>), b))
    ELSE BDivPut(hi.q, BDigit(<<x>> \o hi.r, b))

\* long division, a limb of a at a time from the most significant: the
\* quotient (not normalised) and the remainder
BDivLimbs(a, b) ==
    IF a = <<>> THEN [q |-> <<>>, r |-> <<>>]
    ELSE BDivStep(a[1], b, BDivLimbs(Tail(a), b))

BDivSmallOut(s) == [q |-> BNorm(s.q), r |-> BFromNat(s.r)]

BDivOut(s, sh) == [q |-> BNorm(s.q), r |-> BShr(s.r, sh)]

\* quotient and remainder of a by b # 0 (b is scaled to a top limb of 2^14 or more)
BDivMod(a, b) ==
    IF Len(b) = 1 THEN BDivSmallOut(BDivSmall(a, b[1]))
    ELSE BDivOut(BDivLimbs(BShl(a, 15 - NatBitLen(b[Len(b)])),
                           BShl(b, 15 - NatBitLen(b[Len(b)]))),
                 15 - NatBitLen(b[Len(b)]))

(***************************************************************************)
(* f64: finite values, sign * man * 2^exp.  Zero is FZero (the source      *)
(* compares and casts zeros only, where -0.0 and 0.0 behave alike).  The   *)
(* values the crate meets are far from the ends of the exponent range.     *)
(***************************************************************************)
FZero == [sgn |-> 0, man |-> <<>>, exp |-> 0]

FCanonAt(s, m, e, tz) == [sgn |-> s, man |-> BShr(m, tz), exp |-> e + tz]

\* the f64 whose value is exactly (-1)^s * m * 2^e, for m of at most 53 bits
FCanon(s, m, e) == IF m = <<>> THEN FZero ELSE FCanonAt(s, m, e, BTrailingZeros(m))

\* q, or q + 1 when the part cut off q compares as c to a half: ties to even
BRoundUp(q, c) ==
    IF c = 1 \/ (c = 0 /\ q[1] % 2 = 1) THEN BAdd(q, <<1>>) ELSE q

\* m / 2^d to the nearest integer, ties to even, d > 0
BRoundShr(m, d) == BRoundUp(BShr(m, d), BCmp(BLowBits(m, d), BPow2(d - 1)))

FRoundBy(s, m, e, d) == FCanon(s, IF d = 0 THEN m ELSE BRoundShr(m, d), e + d)

\* (-1)^s * m * 2^e rounded to the nearest f64, ties to even
FRound(s, m, e) ==
    IF m = <<>> THEN FZero ELSE FRoundBy(s, m, e, Max({0, BBitLen(m) - 53}))

FNeg(a) == IF a.man = <<>> THEN a ELSE [a EXCEPT !.sgn = 1 - a.sgn]

\* -1, 0, 1 as |a| < |b|, |a| = |b|, |a| > |b|
FCmpMag(a, b) ==
    BCmp(BShl(a.man, a.exp - Min({a.exp, b.exp})),
         BShl(b.man, b.exp - Min({a.exp, b.exp})))

\* -1, 0, 1 as a < b, a = b, a > b
FCmp(a, b) ==
    IF a.man = <<>> /\ b.man = <<>> THEN 0
    ELSE IF a.man = <<>> THEN (IF b.sgn = 1 THEN 1 ELSE -1)
    ELSE IF b.man = <<>> THEN (IF a.sgn = 1 THEN -1 ELSE 1)
    ELSE IF a.sgn # b.sgn THEN (IF a.sgn = 1 THEN -1 ELSE 1)
    ELSE (IF a.sgn = 0 THEN 1 ELSE -1) * FCmpMag(a, b)

FLe(a, b) == FCmp(a, b) <= 0

FLt(a, b) == FCmp(a, b) < 0

FMul(a, b) ==
    IF a.man = <<>> \/ b.man = <<>> THEN FZero
    ELSE FRound(IF a.sgn = b.sgn THEN 0 ELSE 1, BMul(a.man, b.man), a.exp + b.exp)

\* (-1)^sa * ma * 2^e + (-1)^sb * mb * 2^e
FAddAligned(sa, ma, sb, mb, e) ==
    FRound(IF sa = sb \/ BCmp(ma, mb) >= 0 THEN sa ELSE sb,
           IF sa = sb THEN BAdd(ma, mb) ELSE BDiff(ma, mb),
           e)

FAdd(a, b) ==
    IF a.man = <<>> THEN b
    ELSE IF b.man = <<>> THEN a
    ELSE FAddAligned(a.sgn, BShl(a.man, a.exp - Min({a.exp, b.exp})),
                     b.sgn, BShl(b.man, b.exp - Min({a.exp, b.exp})),
                     Min({a.exp, b.exp}))

FSub(a, b) == FAdd(a, FNeg(b))

\* dm: the quotient and remainder of a.man * 2^k by b.man
FDivOut(a, b, k, dm) ==
    FRound(IF a.sgn = b.sgn THEN 0 ELSE 1,
           BMulSmall(dm.q, 2, IF dm.r = <<>> THEN 0 ELSE 1),
           a.exp - b.exp - k - 1)

FDivBy(a, b, k) == FDivOut(a, b, k, BDivMod(BShl(a.man, k), b.man))

\* a / b for b # 0: 56 or more quotient bits and a sticky bit, then rounded
FDiv(a, b) ==
    IF a.man = <<>> \/ b.man = <<>> THEN FZero
    ELSE FDivBy(a, b, 56 + BBitLen(b.man) - BBitLen(a.man))

\* an unsigned integer `as f64`
FFromU(n) == FRound(0, n, 0)

\* n < 2^31
FFromNat(n) == FCanon(0, BFromNat(n), 0)

\* the f64 a decimal literal n / 10^p of the source denotes
FLit(n, p) == FDiv(FFromNat(n), FFromNat(10^p))

\* f64 `as uN`: toward zero, saturating at 0 and at 2^N - 1
FAsU(a, bits) ==
    IF a.sgn = 1 \/ a.man = <<>> THEN <<>>
    ELSE IF BBitLen(a.man) + a.exp > bits THEN BSub(BPow2(bits), <<1>>)
    ELSE IF a.exp >= 0 THEN BShl(a.man, a.exp)
    ELSE BShr(a.man, 0 - a.exp)

\* m * 2^sh is a.man with 53 bits (FNextUp) or 54 bits (FNextDown)
FNextUpAt(a, sh) == FCanon(a.sgn, BAdd(BShl(a.man, sh), <<1>>), a.exp - sh)

FNextDownAt(a, sh) ==
    FCanon(a.sgn,
           BSub(BShl(a.man, sh), IF a.man = <<1>> THEN <<1>> ELSE <<2>>),
           a.exp - sh)

\* the f64 next above a >= 0 and next below a > 0 (the inputs one ulp off a value)
FNextUp(a) == IF a.man = <<>> THEN a ELSE FNextUpAt(a, 53 - BBitLen(a.man))

FNextDown(a) == FNextDownAt(a, 54 - BBitLen(a.man))

(***************************************************************************)
(* The build mode (cargo feature "std") and the program's state: the call  *)
(* being made (fn), its arguments (width, the integer type of try_from's  *)
(* argument, arg, and arg2 for a second parameter), what it returned (ret) *)
(* and what the call before it returned (prev).  A caller that sweeps a    *)
(* formula over its grid of concentrations is at the grid-th point.        *)
(***************************************************************************)
VARIABLES std, pc, fn, width, grid, arg, arg2, ret, prev

vars == <<std, pc, fn, width, grid, arg, arg2, ret, prev>>

None == [some |-> FALSE]

Some(x) == [some |-> TRUE, val |-> x]

Ok(x) == [ok |-> TRUE, val |-> x]

Err(e) == [ok |-> FALSE, err |-> e]

(***************************************************************************)
(* AirQualityLevel and its TryFrom implementations.  An integer of any of  *)
(* the six types is a sign and a magnitude.                                *)
(***************************************************************************)
AirQualityLevel ==
    {"Good", "Moderate", "UnhealthySensitive", "Unhealthy", "VeryUnhealthy", "Hazardous"}

IntTypes == {"u16", "i16", "u32", "i32", "u64", "i64"}

TypeBits(tpe) ==
    IF tpe \in {"u16", "i16"} THEN 16 ELSE IF tpe \in {"u32", "i32"} THEN 32 ELSE 64

TypeSigned(tpe) == tpe \in {"i16", "i32", "i64"}

IntOf(n) == [neg |-> n < 0, mag |-> BFromNat(IF n < 0 THEN 0 - n ELSE n)]

TypeMin(tpe) ==
    IF TypeSigned(tpe) THEN [neg |-> TRUE, mag |-> BShl(<<1>>, TypeBits(tpe) - 1)]
    ELSE IntOf(0)

TypeMax(tpe) ==
    [neg |-> FALSE,
     mag |-> BSub(BShl(<<1>>, TypeBits(tpe) - (IF TypeSigned(tpe) THEN 1 ELSE 0)), <<1>>)]

\* -1, 0, 1 as v < w, v = w, v > w
IntCmp(v, w) ==
    IF v.neg # w.neg THEN (IF v.neg THEN -1 ELSE 1)
    ELSE IF v.neg THEN BCmp(w.mag, v.mag) ELSE BCmp(v.mag, w.mag)

\* v is a value of the type
InType(tpe, v) == IntCmp(TypeMin(tpe), v) <= 0 /\ IntCmp(v, TypeMax(tpe)) <= 0

\* the pattern lo..=hi
InRange(v, lo, hi) == IntCmp(IntOf(lo), v) <= 0 /\ IntCmp(v, IntOf(hi)) <= 0

\* the macro with its first band written 0..=49
try_from_short_band(tpe, v) ==
    IF InRange(v, 0, 49) THEN Ok("Good")
    ELSE IF InRange(v, 51, 100) THEN Ok("Moderate")
    ELSE IF InRange(v, 101, 150) THEN Ok("UnhealthySensitive")
    ELSE IF InRange(v, 151, 200) THEN Ok("Unhealthy")
    ELSE IF InRange(v, 201, 300) THEN Ok("VeryUnhealthy")
    ELSE IF InRange(v, 301, 500) THEN Ok("Hazardous")
    ELSE Err("Value is out of range for AQI")

\* impl TryFrom<$tpe> for AirQualityLevel, for v of type tpe
try_from(tpe, v) ==
    IF InRange(v, 0, 50) THEN Ok("Good")
    ELSE IF InRange(v, 51, 100) THEN Ok("Moderate")
    ELSE IF InRange(v, 101, 150) THEN Ok("UnhealthySensitive")
    ELSE IF InRange(v, 151, 200) THEN Ok("Unhealthy")
    ELSE IF InRange(v, 201, 300) THEN Ok("VeryUnhealthy")
    ELSE IF InRange(v, 301, 500) THEN Ok("Hazardous")
    ELSE Err("Value is out of range for AQI")

(***************************************************************************)
(* AirQuality, Breakpoint and the breakpoint tables.                       *)
(***************************************************************************)
AirQuality(aqi, level) == [aqi |-> aqi, level |-> level]

Breakpoint(conc_low, conc_high, aqi_low, aqi_high, level) ==
    [conc_low |-> conc_low, conc_high |-> conc_high,
     aqi_low |-> BFromNat(aqi_low), aqi_high |-> BFromNat(aqi_high), level |-> level]

\* a table of the source: its rows, each the numerators of conc_low and of
\* conc_high (literals written with p decimal places), aqi_low, aqi_high and
\* level
Breakpoints(rows, p) ==
    [i \in 1..Len(rows) |->
        Breakpoint(FLit(rows[i][1], p), FLit(rows[i][2], p),
                   rows[i][3], rows[i][4], rows[i][5])]

OZONE8_ROWS == <<
    <<0, 54, 0, 50, "Good">>,
    <<55, 70, 51, 100, "Moderate">>,
    <<71, 85, 101, 150, "UnhealthySensitive">>,
    <<86, 105, 151, 200, "Unhealthy">>,
    <<106, 200, 201, 300, "VeryUnhealthy">>
>>

OZONE8_BREAKPOINTS == Breakpoints(OZONE8_ROWS, 3)

OZONE1_ROWS == <<
    <<125, 164, 101, 150, "UnhealthySensitive">>,
    <<165, 204, 151, 200, "Unhealthy">>,
    <<205, 404, 201, 300, "VeryUnhealthy">>,
    <<405, 504, 301, 400, "Hazardous">>,
    <<505, 604, 401, 500, "Hazardous">>
>>

OZONE1_BREAKPOINTS == Breakpoints(OZONE1_ROWS, 3)

PM25_ROWS == <<
    <<0, 120, 0, 50, "Good">>,
    <<121, 354, 51, 100, "Moderate">>,
    <<355, 554, 101, 150, "UnhealthySensitive">>,
    <<555, 1504, 151, 200, "Unhealthy">>,
    <<1505, 2504, 201, 300, "VeryUnhealthy">>,
    <<2505, 3504, 301, 400, "Hazardous">>,
    <<3505, 5004, 401, 500, "Hazardous">>
>>

PM25_BREAKPOINTS == Breakpoints(PM25_ROWS, 1)

\* the table with the second row starting at AQI 50
PM10_ROWS_OVERLAP == <<
    <<0, 540, 0, 50, "Good">>,
    <<550, 1540, 50, 100, "Moderate">>,
    <<1550, 2540, 101, 150, "UnhealthySensitive">>,
    <<2550, 3540, 151, 200, "Unhealthy">>,
    <<3550, 4240, 201, 300, "VeryUnhealthy">>,
    <<4250, 5040, 301, 400, "Hazardous">>,
    <<5050, 6040, 401, 500, "Hazardous">>
>>

PM10_ROWS == <<
    <<0, 540, 0, 50, "Good">>,
    <<550, 1540, 51, 100, "Moderate">>,
    <<1550, 2540, 101, 150, "UnhealthySensitive">>,
    <<2550, 3540, 151, 200, "Unhealthy">>,
    <<3550, 4240, 201, 300, "VeryUnhealthy">>,
    <<4250, 5040, 301, 400, "Hazardous">>,
    <<5050, 6040, 401, 500, "Hazardous">>
>>

PM10_BREAKPOINTS == Breakpoints(PM10_ROWS, 1)

CO_ROWS == <<
    <<0, 44, 0, 50, "Good">>,
    <<45, 94, 51, 100, "Moderate">>,
    <<95, 124, 101, 150, "UnhealthySensitive">>,
    <<125, 154, 151, 200, "Unhealthy">>,
    <<155, 304, 201, 300, "VeryUnhealthy">>,
    <<305, 404, 301, 400, "Hazardous">>,
    <<405, 504, 401, 500, "Hazardous">>
>>

CO_BREAKPOINTS == Breakpoints(CO_ROWS, 1)

SO2_1_ROWS == <<
    <<0, 350, 0, 50, "Good">>,
    <<360, 750, 51, 100, "Moderate">>,
    <<760, 1850, 101, 150, "UnhealthySensitive">>
>>

SO2_1_BREAKPOINTS == Breakpoints(SO2_1_ROWS, 1)

SO2_24_ROWS == <<
    <<0, 350, 0, 50, "Good">>,
    <<360, 750, 51, 100, "Moderate">>,
    <<760, 1850, 101, 150, "UnhealthySensitive">>,
    <<1860, 3040, 151, 200, "Unhealthy">>,
    <<3050, 6040, 201, 300, "VeryUnhealthy">>,
    <<6050, 8040, 301, 400, "Hazardous">>,
    <<8050, 10040, 401, 500, "Hazardous">>
>>

SO2_24_BREAKPOINTS == Breakpoints(SO2_24_ROWS, 1)

NO2_ROWS == <<
    <<0, 530, 0, 50, "Good">>,
    <<540, 1000, 51, 100, "Moderate">>,
    <<1010, 3600, 101, 150, "UnhealthySensitive">>,
    <<3610, 6490, 151, 200, "Unhealthy">>,
    <<6500, 12490, 201, 300, "VeryUnhealthy">>,
    <<12500, 16490, 301, 400, "Hazardous">>,
    <<16500, 20490, 401, 500, "Hazardous">>
>>

NO2_BREAKPOINTS == Breakpoints(NO2_ROWS, 1)

(***************************************************************************)
(* round, in its two builds.                                               *)
(***************************************************************************)
\* f64::round: to the nearest integer, halves away from zero
f64_round(val) ==
    IF val.man = <<>> \/ val.exp >= 0 THEN val
    ELSE FCanon(val.sgn,
                BAdd(BShr(val.man, 0 - val.exp),
                     IF BCmp(BLowBits(val.man, 0 - val.exp), BPow2(0 - val.exp - 1)) >= 0
                     THEN <<1>> ELSE <<>>),
                0)

\* #[cfg(feature = "std")]
round_std(val) == FAsU(f64_round(val), 32)

\* u32 addition as a release build does it, wrapping at 2^32 (whole + 1
\* overflows only for val at or above 2^32 - 1)
U32Add(a, b) == BLowBits(BAdd(a, b), 32)

\* the no_std build with the comparison written frac > 0.5
round_no_std_strict(val) ==
    LET whole == FAsU(val, 32)
        frac  == FSub(val, FFromU(whole))
    IN  IF FLt(FLit(5, 1), frac) THEN U32Add(whole, <<1>>) ELSE whole

\* #[cfg(not(feature = "std"))]
round_no_std(val) ==
    LET whole == FAsU(val, 32)
        frac  == FSub(val, FFromU(whole))
    IN  IF FLe(FLit(5, 1), frac) THEN U32Add(whole, <<1>>) ELSE whole

\* round with the fraction dropped
round_down(val) == FAsU(val, 32)

round(val) == IF std THEN round_std(val) ELSE round_no_std(val)

(***************************************************************************)
(* The interpolation engine.                                               *)
(***************************************************************************)
find_breakpoint(breakpoints, concentration) ==
    LET hit == {i \in 1..Len(breakpoints) :
                    /\ FLe(breakpoints[i].conc_low, concentration)
                    /\ FLe(concentration, breakpoints[i].conc_high)}
    IN  IF hit = {} THEN None
        ELSE Some(breakpoints[CHOOSE i \in hit : \A j \in hit : i <= j])

\* the f64 that calc_aqi rounds
calc_aqi_f64(breakpoint, concentration) ==
    FAdd(FMul(FDiv(FSub(FFromU(breakpoint.aqi_high), FFromU(breakpoint.aqi_low)),
                   FSub(breakpoint.conc_high, breakpoint.conc_low)),
              FSub(concentration, breakpoint.conc_low)),
         FFromU(breakpoint.aqi_low))

\* calc_aqi with the interpolated value always rounded up
calc_aqi_round_up(breakpoints, concentration) ==
    LET found == find_breakpoint(breakpoints, concentration)
    IN  IF ~found.some THEN None
        ELSE Some(AirQuality(U32Add(FAsU(calc_aqi_f64(found.val, concentration), 32), <<1>>),
                             found.val.level))

calc_aqi(breakpoints, concentration) ==
    LET found == find_breakpoint(breakpoints, concentration)
    IN  IF ~found.some THEN None
        ELSE Some(AirQuality(round(calc_aqi_f64(found.val, concentration)),
                             found.val.level))

trunc(value, nplaces) ==
    LET truncator == FFromNat(10^nplaces)
    IN  FDiv(FFromU(FAsU(FMul(value, truncator), 64)), truncator)

(***************************************************************************)
(* The formula functions.                                                  *)
(***************************************************************************)
ozone8(concentration) == calc_aqi(OZONE8_BREAKPOINTS, trunc(concentration, 3))

ozone1(concentration) == calc_aqi(OZONE1_BREAKPOINTS, trunc(concentration, 3))

pm2_5(concentration) == calc_aqi(PM25_BREAKPOINTS, trunc(concentration, 1))

\* the function with its humidity check written 0.0 <= humidity < 1.0
pm2_5_epa_open(concentration, humidity) ==
    IF FLe(FLit(0, 1), humidity) /\ FLt(humidity, FLit(10, 1))
    THEN calc_aqi(PM25_BREAKPOINTS,
                  trunc(FAdd(FSub(FMul(FLit(52, 2), concentration),
                                  FMul(FLit(85, 3), humidity)),
                             FLit(571, 2)), 1))
    ELSE None

pm2_5_epa(concentration, humidity) ==
    IF FLe(FLit(0, 1), humidity) /\ FLe(humidity, FLit(10, 1))
    THEN calc_aqi(PM25_BREAKPOINTS,
                  trunc(FAdd(FSub(FMul(FLit(52, 2), concentration),
                                  FMul(FLit(85, 3), humidity)),
                             FLit(571, 2)), 1))
    ELSE None

\* the function with its guard written concentration < 65.0
pm2_5_lrapa_below(concentration) ==
    IF FLt(concentration, FLit(650, 1))
    THEN calc_aqi(PM25_BREAKPOINTS,
                  trunc(FSub(FMul(FLit(5, 1), concentration), FLit(66, 2)), 1))
    ELSE None

pm2_5_lrapa(concentration) ==
    IF FLe(concentration, FLit(650, 1))
    THEN calc_aqi(PM25_BREAKPOINTS,
                  trunc(FSub(FMul(FLit(5, 1), concentration), FLit(66, 2)), 1))
    ELSE None

pm2_5_aqandu(concentration) ==
    calc_aqi(PM25_BREAKPOINTS,
             trunc(FAdd(FMul(FLit(778, 3), concentration), FLit(265, 2)), 1))

pm10(concentration) == calc_aqi(PM10_BREAKPOINTS, FFromU(FAsU(concentration, 32)))

co(concentration) == calc_aqi(CO_BREAKPOINTS, trunc(concentration, 1))

so2_1(concentration) == calc_aqi(SO2_1_BREAKPOINTS, trunc(concentration, 0))

so2_24(concentration) == calc_aqi(SO2_24_BREAKPOINTS, trunc(concentration, 0))

no2(concentration) == calc_aqi(NO2_BREAKPOINTS, trunc(concentration, 0))

(***************************************************************************)
(* The calls.  Each returns in one step; the caller keeps the result of    *)
(* the call before.                                                        *)
(***************************************************************************)
Return(f, r) ==
    /\ pc = "start"
    /\ fn = f
    /\ ret' = r
    /\ prev' = ret
    /\ pc' = "done"
    /\ UNCHANGED <<std, fn, width, grid, arg, arg2>>

TryFrom == Return("try_from", try_from(width, arg))

Round == Return("round", round(arg))

Trunc == Return("trunc", trunc(arg, arg2))

Ozone8 == Return("ozone8", ozone8(arg))

Ozone1 == Return("ozone1", ozone1(arg))

Pm2_5 == Return("pm2_5", pm2_5(arg))

Pm2_5Epa == Return("pm2_5_epa", pm2_5_epa(arg, arg2))

Pm2_5Lrapa == Return("pm2_5_lrapa", pm2_5_lrapa(arg))

Pm2_5Aqandu == Return("pm2_5_aqandu", pm2_5_aqandu(arg))

Pm10 == Return("pm10", pm10(arg))

Co == Return("co", co(arg))

So2_1 == Return("so2_1", so2_1(arg))

So2_24 == Return("so2_24", so2_24(arg))

No2 == Return("no2", no2(arg))

Unadjusted == {"ozone8", "ozone1", "pm2_5", "pm10", "co", "so2_1", "so2_24", "no2"}

Adjusted == {"pm2_5_epa", "pm2_5_lrapa", "pm2_5_aqandu"}

UnadjustedCall == Ozone8 \/ Ozone1 \/ Pm2_5 \/ Pm10 \/ Co \/ So2_1 \/ So2_24 \/ No2

Formula == UnadjustedCall \/ Pm2_5Epa \/ Pm2_5Lrapa \/ Pm2_5Aqandu

\* the table a formula looks its concentration up in
Table(f) ==
    CASE f = "ozone8" -> OZONE8_BREAKPOINTS
      [] f = "ozone1" -> OZONE1_BREAKPOINTS
      [] f = "pm10"   -> PM10_BREAKPOINTS
      [] f = "co"     -> CO_BREAKPOINTS
      [] f = "so2_1"  -> SO2_1_BREAKPOINTS
      [] f = "so2_24" -> SO2_24_BREAKPOINTS
      [] f = "no2"    -> NO2_BREAKPOINTS
      [] OTHER        -> PM25_BREAKPOINTS

\* the rows of that table and the decimal places its literals are written with
Rows(f) ==
    CASE f = "ozone8" -> OZONE8_ROWS
      [] f = "ozone1" -> OZONE1_ROWS
      [] f = "pm10"   -> PM10_ROWS
      [] f = "co"     -> CO_ROWS
      [] f = "so2_1"  -> SO2_1_ROWS
      [] f = "so2_24" -> SO2_24_ROWS
      [] f = "no2"    -> NO2_ROWS
      [] OTHER        -> PM25_ROWS

LitPlaces(f) == IF f \in {"ozone8", "ozone1"} THEN 3 ELSE 1

\* the decimal places a formula keeps of the concentration it looks up
Places(f) ==
    IF f \in {"ozone8", "ozone1"} THEN 3
    ELSE IF f \in {"pm10", "so2_1", "so2_24", "no2"} THEN 0
    ELSE 1

(***************************************************************************)
(* Exact arithmetic on f64 values, for stating what a result should be.    *)
(***************************************************************************)
\* floor(a * n / d) for an f64 a >= 0 and naturals n, d > 0
ExactFloor(a, n, d) ==
    IF a.man = <<>> THEN <<>>
    ELSE IF a.exp >= 0
    THEN BDivMod(BMul(BShl(a.man, a.exp), BFromNat(n)), BFromNat(d)).q
    ELSE BDivMod(BMul(a.man, BFromNat(n)), BShl(BFromNat(d), 0 - a.exp)).q

\* the integer nearest to a * n, halves up, for an f64 a >= 0
ExactNearest(a, n) == BDivMod(BAdd(ExactFloor(a, 2 * n, 1), <<1>>), <<2>>).q

(***************************************************************************)
(* A caller that sweeps a formula upward over its grid: the unadjusted     *)
(* formulas over the multiples of their last decimal place, from 0 to      *)
(* SweepMargin points past the top of the table, and the adjusted ones     *)
(* over whole concentrations.                                              *)
(***************************************************************************)
SweepMargin == 3

EpaTop == 955

LrapaTop == 67

AqanduTop == 642

SweepPlaces(f) == IF f \in Adjusted THEN 0 ELSE Places(f)

\* the top of a formula's table in units of its last decimal place
TableTop(f) == Rows(f)[Len(Rows(f))][2] \div 10^(LitPlaces(f) - Places(f))

SweepTop(f) ==
    CASE f = "pm2_5_epa"    -> EpaTop
      [] f = "pm2_5_lrapa"  -> LrapaTop
      [] f = "pm2_5_aqandu" -> AqanduTop
      [] OTHER -> TableTop(f) + SweepMargin

Advance ==
    /\ pc = "done"
    /\ grid < SweepTop(fn)
    /\ grid' = grid + 1
    /\ arg' = FLit(grid', SweepPlaces(fn))
    /\ pc' = "start"
    /\ UNCHANGED <<std, fn, width, arg2, ret, prev>>

Init ==
    /\ std \in BOOLEAN
    /\ pc = "start"
    /\ fn \in Unadjusted \cup Adjusted
    /\ width = "u32"
    /\ grid = 0
    /\ arg = FZero
    /\ arg2 \in (IF fn = "pm2_5_epa" THEN {FZero, FLit(10, 1)} ELSE {FZero})
    /\ ret = None
    /\ prev = None

Next == Formula \/ Advance

Spec == Init /\ [][Next]_vars

(***************************************************************************)
(* A caller of AirQualityLevel::try_from: one call, on an integer of one   *)
(* of the six types that is within TryMargin of the bands or is an extreme *)
(* of a type.                                                              *)
(***************************************************************************)
TryMargin == 20

TryFromInputs(tpe) ==
    {v \in {IntOf(n) : n \in (0 - TryMargin)..(500 + TryMargin)}
            \cup {TypeMin(t) : t \in IntTypes} \cup {TypeMax(t) : t \in IntTypes} :
        InType(tpe, v)}

InitTryFrom ==
    /\ std = TRUE
    /\ pc = "start"
    /\ fn = "try_from"
    /\ width \in IntTypes
    /\ grid = 0
    /\ arg \in TryFromInputs(width)
    /\ arg2 = FZero
    /\ ret = None
    /\ prev = None

SpecTryFrom == InitTryFrom /\ [][TryFrom]_vars

\* the level of an AQI value n in 0..500, by the published bands
BandOf(n) ==
    IF n <= 50 THEN "Good"
    ELSE IF n <= 100 THEN "Moderate"
    ELSE IF n <= 150 THEN "UnhealthySensitive"
    ELSE IF n <= 200 THEN "Unhealthy"
    ELSE IF n <= 300 THEN "VeryUnhealthy"
    ELSE "Hazardous"

\* the categorization of the integer v: an error exactly below 0 and above 500
Categorize(v) ==
    IF (v.neg /\ v.mag # <<>>) \/ BCmp(v.mag, BFromNat(500)) > 0
    THEN Err("Value is out of range for AQI")
    ELSE Ok(BandOf(BToNat(v.mag)))

\* C1: for each of the six integer types and every value of it, try_from
\* returns the level of the band the value lies in (0..50 Good, 51..100
\* Moderate, 101..150 UnhealthySensitive, 151..200 Unhealthy, 201..300
\* VeryUnhealthy, 301..500 Hazardous), returns the error "Value is out of
\* range for AQI" exactly when the value is below 0 or above 500, and every
\* type that holds the value gives the same answer.
C1_TryFromBands ==
    (pc = "done" /\ fn = "try_from") =>
        /\ ret = Categorize(arg)
        /\ \A t \in IntTypes : InType(t, arg) => try_from(t, arg) = ret

C1_Witness ==
    /\ pc = "done"
    /\ fn = "try_from"
    /\ width = "i64"
    /\ arg = TypeMin("i64")
    /\ ret = Err("Value is out of range for AQI")
(***************************************************************************)
(* A caller of round: one call, on a multiple of 0.1, or on a neighbour of *)
(* a half, below RoundLimit.                                               *)
(***************************************************************************)
RoundTop == 5004

RoundLimit == FLit(5005, 1)

RoundInputs ==
    {v \in {FLit(k, 1) : k \in 0..RoundTop}
            \cup {FNextDown(FLit(10 * j + 5, 1)) : j \in 0..(RoundTop \div 10)}
            \cup {FNextUp(FLit(10 * j + 5, 1)) : j \in 0..(RoundTop \div 10)} :
        FLt(v, RoundLimit)}

InitRound ==
    /\ std \in BOOLEAN
    /\ pc = "start"
    /\ fn = "round"
    /\ width = "u32"
    /\ grid = 0
    /\ arg \in RoundInputs
    /\ arg2 = FZero
    /\ ret = None
    /\ prev = None

SpecRound == InitRound /\ [][Round]_vars

\* the integer nearest to the f64 a >= 0, a half going up
RoundHalfUp(a) == ExactNearest(a, 1)

\* C10: on every value in [0, 500.5) the std build and the no_std build of
\* round return the same integer, and that integer is the value rounded half
\* up: exactly X.5 gives X + 1 and a fraction below .5 gives X (4.5 -> 5,
\* 123.3 -> 123, 84.9 -> 85).
C10_RoundBuildsAgree ==
    (pc = "done" /\ fn = "round") =>
        /\ round_std(arg) = round_no_std(arg)
        /\ ret = RoundHalfUp(arg)
        /\ (arg = FLit(45, 1) => ret = BFromNat(5))
        /\ (arg = FLit(1233, 1) => ret = BFromNat(123))
        /\ (arg = FLit(849, 1) => ret = BFromNat(85))

C10_Witness ==
    /\ pc = "done"
    /\ fn = "round"
    /\ ~std
    /\ arg = FLit(45, 1)
    /\ ret = BFromNat(5)
(***************************************************************************)
(* A caller of pm2_5_lrapa: one call, on a multiple of 0.1 up to           *)
(* LrapaTenths tenths, on a neighbour of 65.0, or on an end of the range   *)
(* its documentation gives.                                                *)
(***************************************************************************)
LrapaTenths == 700

LrapaInputs ==
    {FLit(k, 1) : k \in 0..LrapaTenths}
        \cup {FNextDown(FLit(650, 1)), FNextUp(FLit(650, 1)),
              FLit(66, 2), FLit(100212, 2), FLit(1000, 0)}

InitLrapa ==
    /\ std \in BOOLEAN
    /\ pc = "start"
    /\ fn = "pm2_5_lrapa"
    /\ width = "u32"
    /\ grid = 0
    /\ arg \in LrapaInputs
    /\ arg2 = FZero
    /\ ret = None
    /\ prev = None

SpecLrapa == InitLrapa /\ [][Pm2_5Lrapa]_vars

C6_LrapaDefinedRange ==
    (pc = "done" /\ fn = "pm2_5_lrapa"
        /\ FLe(FLit(66, 2), arg) /\ FLe(arg, FLit(100212, 2))) => ret.some
(***************************************************************************)
(* A caller of trunc: one call, with 0, 1 or 3 places, on a multiple of    *)
(* the last place up to TruncTop of them, on the f64 next below or next    *)
(* above one, or on one of 12.349999999, 12.39 and 12.09.                  *)
(***************************************************************************)
TruncTop == 130

TruncPlaces == {0, 1, 3}

\* the literal 12.349999999
TruncLiteral ==
    FDiv(FRound(0, BAdd(BMul(BFromNat(12349), BFromNat(10^6)), BFromNat(999999)), 0),
         FFromNat(10^9))

TruncInputs(n) ==
    {FLit(k, n) : k \in 0..TruncTop}
        \cup {FNextDown(FLit(k, n)) : k \in 1..TruncTop}
        \cup {FNextUp(FLit(k, n)) : k \in 1..TruncTop}
        \cup {TruncLiteral, FLit(1239, 2), FLit(1209, 2)}

InitTrunc ==
    /\ std = TRUE
    /\ pc = "start"
    /\ fn = "trunc"
    /\ width = "u32"
    /\ grid = 0
    /\ arg2 \in TruncPlaces
    /\ arg \in TruncInputs(arg2)
    /\ ret = None
    /\ prev = None

SpecTrunc == InitTrunc /\ [][Trunc]_vars

\* C9: for every non-negative v and n in {0, 1, 3}, trunc(v, n) never rounds
\* up: trunc(v, n) <= v, with 12.349999999 and 12.39 both giving 12.3 and
\* 12.09 giving 12.0 at n = 1.
C9_TruncNeverRoundsUp ==
    (pc = "done" /\ fn = "trunc") =>
        /\ FLe(ret, arg)
        /\ (arg2 = 1 /\ arg \in {TruncLiteral, FLit(1239, 2)} => ret = FLit(123, 1))
        /\ (arg2 = 1 /\ arg = FLit(1209, 2) => ret = FLit(120, 1))

(***************************************************************************)
(* A caller of an unadjusted formula: one call, on a negative              *)
(* concentration down to DomainNeg tenths below 0, or on a concentration   *)
(* within DomainSpan tenths of a grid step of the bottom or the top of the *)
(* table.                                                                  *)
(***************************************************************************)
DomainNeg == 30

DomainSpan == 25

\* the bottom of a formula's table in units of its last decimal place
TableLow(f) == Rows(f)[1][1] \div 10^(LitPlaces(f) - Places(f))

DomainInputs(f) ==
    {FNeg(FLit(k, 1)) : k \in 1..DomainNeg}
        \cup {FLit(10 * TableTop(f) + j, Places(f) + 1) : j \in (0 - DomainSpan)..DomainSpan}
        \cup {FLit(10 * TableLow(f) + j, Places(f) + 1) : j \in 0..DomainSpan}

InitDomain ==
    /\ std \in BOOLEAN
    /\ pc = "start"
    /\ fn \in Unadjusted
    /\ width = "u32"
    /\ grid = 0
    /\ arg \in DomainInputs(fn)
    /\ arg2 = FZero
    /\ ret = None
    /\ prev = None

SpecDomain == InitDomain /\ [][UnadjustedCall]_vars

\* the f64 c, truncated toward zero to the formula's decimal places, lies
\* within the range of the formula's table
TruncatedInRange(f, c) ==
    LET t == ExactFloor([c EXCEPT !.sgn = 0], 10^Places(f), 1)
    IN  IF c.sgn = 1 /\ t # <<>> THEN FALSE
        ELSE /\ BCmp(BFromNat(TableLow(f)), t) <= 0
             /\ BCmp(t, BFromNat(TableTop(f))) <= 0

\* C3: an unadjusted formula returns a result if and only if the
\* concentration, truncated toward zero to the formula's decimal places, lies
\* within the table's range; a concentration of -1 or lower and a
\* concentration above the table's top get no result.
C3_ResultIffInRange ==
    (pc = "done" /\ fn \in Unadjusted) => (ret.some <=> TruncatedInRange(fn, arg))

(***************************************************************************)
(* A caller of pm2_5_epa: one call, on a concentration that is a multiple  *)
(* of 0.5 up to EpaHalves halves, or one of -1, 588.25 and 1000, at a      *)
(* humidity below, in or above [0.0, 1.0].                                 *)
(***************************************************************************)
EpaHalves == 200

EpaInputs ==
    {FLit(5 * k, 1) : k \in 0..EpaHalves}
        \cup {FNeg(FLit(1, 0)), FLit(58825, 2), FLit(1000, 0)}

EpaHumidities ==
    {FNeg(FLit(1, 0)), FNeg(FLit(1, 3)), FZero, FLit(5, 1), FNextDown(FLit(10, 1)),
     FLit(10, 1), FNextUp(FLit(10, 1)), FLit(15, 1)}

InitEpa ==
    /\ std \in BOOLEAN
    /\ pc = "start"
    /\ fn = "pm2_5_epa"
    /\ width = "u32"
    /\ grid = 0
    /\ arg \in EpaInputs
    /\ arg2 \in EpaHumidities
    /\ ret = None
    /\ prev = None

SpecEpa == InitEpa /\ [][Pm2_5Epa]_vars

\* the f64 value of 0.52 * c - 0.085 * h + 5.71
EpaValue(c, h) ==
    FAdd(FSub(FMul(FLit(52, 2), c), FMul(FLit(85, 3), h)), FLit(571, 2))

RowIndex(f, k) ==
    LET d   == 10^(LitPlaces(f) - Places(f))
        hit == {i \in 1..Len(Rows(f)) : Rows(f)[i][1] \div d <= k /\ k <= Rows(f)[i][2] \div d}
    IN  IF hit = {} THEN 0 ELSE CHOOSE i \in hit : TRUE

\* n / d rounded to the nearest integer, a half going up
NearestQuotient(n, d) == (2 * n + d) \div (2 * d)

\* the interpolation of the claim over a row, at k tenths, in exact arithmetic
Interpolate(row, k) ==
    row[3] + NearestQuotient((row[4] - row[3]) * (k - row[1]), row[2] - row[1])

\* the values the tests and the reference table give, tenths to AQI
Pm25Listed ==
    {<<120, 50>>, <<121, 51>>, <<354, 100>>, <<355, 101>>, <<554, 150>>, <<555, 151>>,
     <<1504, 200>>, <<1505, 201>>, <<2504, 300>>, <<2505, 301>>, <<3504, 400>>,
     <<3505, 401>>, <<5004, 500>>, <<160, 59>>, <<850, 166>>, <<940, 171>>,
     <<1380, 194>>, <<1580, 208>>, <<1750, 225>>, <<1920, 242>>, <<2000, 250>>}

\* C2: for every multiple c of 0.1 in [0.0, 500.4], pm2_5(c) returns the
\* interpolation over the one PM2.5 row that holds c, rounded half up; every
\* lower bound of a row gives its aqi_low, every upper bound its aqi_high,
\* and the listed reference values hold.
C2_Pm25Interpolation ==
    (pc = "done" /\ fn = "pm2_5" /\ grid <= TableTop("pm2_5")) =>
        /\ RowIndex("pm2_5", grid) # 0
        /\ ret.some
        /\ BToNat(ret.val.aqi) = Interpolate(PM25_ROWS[RowIndex("pm2_5", grid)], grid)
        /\ \A i \in 1..Len(PM25_ROWS) :
              /\ (grid = PM25_ROWS[i][1] => BToNat(ret.val.aqi) = PM25_ROWS[i][3])
              /\ (grid = PM25_ROWS[i][2] => BToNat(ret.val.aqi) = PM25_ROWS[i][4])
        /\ \A e \in Pm25Listed : grid = e[1] => BToNat(ret.val.aqi) = e[2]

C2_Witness ==
    /\ pc = "done"
    /\ fn = "pm2_5"
    /\ grid = 5004
    /\ ret = Some(AirQuality(BFromNat(500), "Hazardous"))

\* C7: over the grid of every unadjusted formula the AQI never decreases as
\* the concentration increases, it increases strictly from one row of the
\* table to the next, and each row's aqi_high is one less than the next
\* row's aqi_low.  (The results lie on one unbroken run of the grid, so the
\* order of neighbours is the order of every pair.)
C7_Monotone ==
    (pc = "done" /\ fn \in Unadjusted) =>
        /\ \A i \in 1..(Len(Rows(fn)) - 1) : Rows(fn)[i][4] + 1 = Rows(fn)[i + 1][3]
        /\ (prev.some /\ ~ret.some => grid > TableTop(fn))
        /\ (prev.some /\ ret.some =>
                /\ BCmp(prev.val.aqi, ret.val.aqi) <= 0
                /\ (RowIndex(fn, grid - 1) # RowIndex(fn, grid) =>
                        BCmp(prev.val.aqi, ret.val.aqi) < 0))

C7_Witness ==
    /\ pc = "done"
    /\ fn = "pm10"
    /\ grid = 55
    /\ prev = Some(AirQuality(BFromNat(50), "Good"))
    /\ ret = Some(AirQuality(BFromNat(51), "Moderate"))

\* C8: whenever a formula function, adjusted or not, returns a result, its
\* aqi lies in [0, 500] and try_from of the aqi is Ok of the result's level.
C8_AqiMatchesLevel ==
    (pc = "done" /\ fn \in Unadjusted \cup Adjusted /\ ret.some) =>
        /\ BCmp(ret.val.aqi, BFromNat(500)) <= 0
        /\ try_from("u32", [neg |-> FALSE, mag |-> ret.val.aqi]) = Ok(ret.val.level)

C8_Witness ==
    /\ pc = "done"
    /\ fn = "pm2_5_aqandu"
    /\ ret.some
    /\ ret.val.aqi = BFromNat(301)
    /\ ret.val.level = "Hazardous"

====
